---- MODULE Spec2Model ----
(***************************************************************************)
(* State-machine model of the InternationAlly front end: the transport     *)
(* wrapper (services/api.js), the notification layer (UIContext.jsx), the  *)
(* session state (AuthContext.jsx), the route guard (ProtectedRoute), the  *)
(* router (App), the navbar, the signup and onboarding pages, the profile  *)
(* page (ProfilePage) and the chat view (ChatPage).                        *)
(*                                                                         *)
(* Every asynchronous handler is split where it awaits the network: one    *)
(* action for the synchronous part up to the fetch, and one action for the *)
(* settlement of the fetch, which runs the rest of the transport function  *)
(* and of its callers (catch / finally blocks included) as one step,       *)
(* because promise continuations run as microtasks before any other event. *)
(***************************************************************************)
EXTENDS Integers, Sequences, FiniteSets, TLC

(* ---------------------------------------------------------------- bounds *)

\* How many network requests one behaviour may issue in total.
MaxRequests == 3
\* How many error-clearing timers may be pending at once.
MaxTimers == 2
\* How many entries a transcript may hold before new sends are not explored.
MaxTranscript == 4

\* How far the millisecond clock is followed.
MaxClock == 2
\* How many children the legacy chat's message list may hold before new
\* submits are not explored.
MaxChildren == 5

(* ------------------------------------------------------- values and sets *)

\* JavaScript null / undefined, kept as strings so every field has one type.
Null == "<null>"
Undefined == "<undefined>"

\* localStorage.getItem('token') when the key is absent.
NoToken == Null

\* The accounts the backend may answer a login or signup with.
Accounts == { [token |-> "t1", user |-> "u1"], [token |-> "t2", user |-> "u2"] }
Tokens == { a.token : a \in Accounts }
Users == { a.user : a \in Accounts }

\* The routes of App, and the ones wrapped in ProtectedRoute.
Pages == { "/", "/login", "/signup", "/onboarding", "/chat", "/profile" }
ProtectedPages == { "/chat", "/profile" }

\* What the user may type into the chat input.
ChatInputs == { "", " \t", " hi " }

\* The onboarding wizard's first and last step.
FirstStep == 1
LastStep == 3

(* ------------------------------------------------------- JavaScript bits *)

\* a || b on strings: b when a is undefined, null or empty.
OrElse(a, b) == IF a \in { Undefined, Null, "" } THEN b ELSE a

IsSpace(c) == c \in { " ", "\t", "\n" }

\* String.prototype.trim: strip leading, then trailing white space.
RECURSIVE TrimLeft(_)
TrimLeft(s) ==
  IF Len(s) = 0 THEN s
  ELSE IF IsSpace(SubSeq(s, 1, 1)) THEN TrimLeft(SubSeq(s, 2, Len(s)))
  ELSE s

RECURSIVE TrimRight(_)
TrimRight(s) ==
  IF Len(s) = 0 THEN s
  ELSE IF IsSpace(SubSeq(s, Len(s), Len(s))) THEN TrimRight(SubSeq(s, 1, Len(s) - 1))
  ELSE s

Trim(s) == TrimRight(TrimLeft(s))

(* ------------------------------------------------------ backend answers *)

\* A settled fetch: status 0 stands for a fetch that rejected (offline, DNS,
\* CORS) or whose body could not be parsed; data is the parsed JSON body.
NoData ==
  [ token |-> Undefined, user |-> Undefined, error |-> Undefined,
    success |-> FALSE, response |-> Undefined, message |-> Undefined ]

NetworkFailure == [ status |-> 0, data |-> NoData ]

\* A non-ok answer with status s whose body carries the error e.
Failure(s, e) == [ status |-> s, data |-> [ NoData EXCEPT !.error = e ] ]

\* Answers to login and signup: every non-ok status is handled alike, so one
\* status with a server message and one without stand for them all.
CredentialFailures == { Failure(401, "E"), Failure(500, Undefined) }

\* Answers to the authenticated calls: 401 is handled apart (its body is never
\* read), the other statuses with and without a server message.
AuthenticatedFailures == { Failure(401, Undefined), Failure(500, "E"), Failure(500, Undefined) }

AuthResponses ==
  { [ status |-> 200, data |-> [ NoData EXCEPT !.token = a.token, !.user = a.user ] ] :
      a \in Accounts }

ProfileResponses ==
  { [ status |-> 200, data |-> [ NoData EXCEPT !.user = u ] ] : u \in Users }

ChatBodies ==
  { [ NoData EXCEPT !.success = TRUE, !.response = "R" ],
    [ NoData EXCEPT !.success = TRUE, !.message = "M" ],
    [ NoData EXCEPT !.success = TRUE, !.response = "", !.message = "M" ],
    [ NoData EXCEPT !.success = FALSE, !.error = "E" ],
    [ NoData EXCEPT !.success = FALSE ] }

ChatResponses == { [ status |-> 200, data |-> b ] : b \in ChatBodies }

LoginAnswers == AuthResponses \cup CredentialFailures \cup { NetworkFailure }
ProfileAnswers == ProfileResponses \cup AuthenticatedFailures \cup { NetworkFailure }
ChatAnswers == ChatResponses \cup AuthenticatedFailures \cup { NetworkFailure }

\* response.ok
Ok(resp) == resp.status >= 200 /\ resp.status <= 299

\* The message of the error a rejected fetch (or an unparsable body) raises.
FetchErrorMessage == "Failed to fetch"
SessionExpiredMessage == "Session expired. Please login again."
NoTokenMessage == "No authentication token found"
ChatErrorContent == "Sorry, there was an error processing your message."

(* ---------------------------------------------------- transport wrapper *)
(* Each operator is the part of an ApiService method that runs once its    *)
(* fetch has settled with resp, given the token stored at that moment. It  *)
(* yields the token stored afterwards and either the value returned        *)
(* (threw = FALSE) or the message of the error raised (threw = TRUE).      *)

Returned(stored, data) ==
  [ stored |-> stored, threw |-> FALSE, data |-> data, message |-> Undefined ]
Raised(stored, message) ==
  [ stored |-> stored, threw |-> TRUE, data |-> NoData, message |-> message ]

\* ApiService.login and ApiService.signup: no token is read, the body is
\* parsed first, a non-ok status raises, otherwise the token is stored.
ApiCredentials(resp, stored, fallback) ==
  IF resp.status = 0 THEN Raised(stored, FetchErrorMessage)
  ELSE IF ~Ok(resp) THEN Raised(stored, OrElse(resp.data.error, fallback))
  ELSE Returned(resp.data.token, resp.data)

\* A variant of login that returns the payload without storing its token.
ApiLoginNoStore(resp, stored) ==
  IF resp.status = 0 THEN Raised(stored, FetchErrorMessage)
  ELSE IF ~Ok(resp) THEN Raised(stored, OrElse(resp.data.error, "Login failed"))
  ELSE Returned(stored, resp.data)

\* A variant of login that removes the stored token when the status is not ok.
ApiLoginClearsOnFailure(resp, stored) ==
  IF resp.status = 0 THEN Raised(stored, FetchErrorMessage)
  ELSE IF ~Ok(resp) THEN Raised(NoToken, OrElse(resp.data.error, "Login failed"))
  ELSE Returned(resp.data.token, resp.data)

ApiLogin(resp, stored) == ApiCredentials(resp, stored, "Login failed")

ApiSignup(resp, stored) == ApiCredentials(resp, stored, "Signup failed")

\* A variant of the authenticated calls that removes the token on every
\* status that is not ok.
ApiAuthenticatedClearsOnAnyStatus(resp, stored, fallback) ==
  IF resp.status = 0 THEN Raised(stored, FetchErrorMessage)
  ELSE IF ~Ok(resp) THEN
    IF resp.status = 401 THEN Raised(NoToken, SessionExpiredMessage)
    ELSE Raised(NoToken, OrElse(resp.data.error, fallback))
  ELSE Returned(stored, resp.data)

\* A variant of the authenticated calls that leaves the token in place on 401.
ApiAuthenticatedKeepsToken(resp, stored, fallback) ==
  IF resp.status = 0 THEN Raised(stored, FetchErrorMessage)
  ELSE IF ~Ok(resp) THEN
    IF resp.status = 401 THEN Raised(stored, SessionExpiredMessage)
    ELSE Raised(stored, OrElse(resp.data.error, fallback))
  ELSE Returned(stored, resp.data)

\* ApiService.getProfile, updateProfile and sendChatMessage after the fetch.
ApiAuthenticated(resp, stored, fallback) ==
  IF resp.status = 0 THEN Raised(stored, FetchErrorMessage)
  ELSE IF ~Ok(resp) THEN
    IF resp.status = 401 THEN Raised(NoToken, SessionExpiredMessage)
    ELSE Raised(stored, OrElse(resp.data.error, fallback))
  ELSE Returned(stored, resp.data)

ApiGetProfile(resp, stored) == ApiAuthenticated(resp, stored, "Failed to fetch profile")

ApiUpdateProfile(resp, stored) == ApiAuthenticated(resp, stored, "Failed to update profile")

ApiSendChatMessage(resp, stored) == ApiAuthenticated(resp, stored, "Failed to send message")

\* A variant of the guard that lets a call through with no token stored.
HasTokenUnchecked(stored) == TRUE

\* The guard at the head of the three authenticated methods: !token.
HasToken(stored) == stored \notin { Null, Undefined, "" }

(* ------------------------------------------------------------ the state *)

VARIABLES
  token,          \* localStorage['token'], NoToken when absent
  user,           \* AuthProvider: user
  isInitialized,  \* AuthProvider: isInitialized
  authPc,         \* where initializeAuth stands: uninitialized, checking, done
  error,          \* UIProvider: error
  isLoading,      \* UIProvider: isLoading (the global busy flag)
  timers,         \* pending setTimeout(() => setError(null), 5000) callbacks
  loadingCalls,   \* history: calls of startLoading less calls of stopLoading
  page,           \* the route the router shows
  messages,       \* ChatPage: messages (the transcript)
  inputMessage,   \* ChatPage: inputMessage
  chatLoading,    \* ChatPage: isLoading (the chat view's busy flag)
  step,           \* OnboardingPage: step
  profilePage,    \* ProfilePage: isLoading, isEditing, and the showError its
                  \* effect last ran with
  now,            \* Date.now(): the millisecond clock
  sinceLogout,    \* logout() has run and no login or signup was started since
  chatMessages,   \* legacy chat: the children of the chat-messages element
  legacyChats,    \* legacy chat: fetches of /chat in flight
  legacyClears,   \* legacy chat: fetches of /clear in flight
  requests,       \* fetches in flight
  nextId,         \* number of the next request issued
  last            \* the handler step taken last, and what it returned

authVars == << token, user, isInitialized, authPc >>
uiVars == << error, isLoading, timers, loadingCalls >>
chatVars == << messages, inputMessage, chatLoading >>
netVars == << requests, nextId >>
legacyVars == << chatMessages, legacyChats, legacyClears >>
vars == << token, user, isInitialized, authPc, error, isLoading, timers,
           loadingCalls, page,
           messages, inputMessage, chatLoading, step, profilePage, now,
           sinceLogout, chatMessages, legacyChats, legacyClears, requests,
           nextId, last >>

(* ------------------------------------------------- notification layer *)
(* The UIProvider state as a record, so that a handler calling showError   *)
(* twice, or startLoading and stopLoading, composes the calls in order.   *)

Ui == [ error |-> error, isLoading |-> isLoading, timers |-> timers,
        calls |-> loadingCalls ]

\* A variant of showError that cancels the clear still pending (clearTimeout)
\* before it schedules its own.
ShowErrorCancelsPending(ui, msg) == [ ui EXCEPT !.error = msg, !.timers = 1 ]

\* showError: set the message and schedule an unconditional clear.
ShowError(ui, msg) == [ ui EXCEPT !.error = msg, !.timers = @ + 1 ]

StartLoading(ui) == [ ui EXCEPT !.isLoading = TRUE, !.calls = @ + 1 ]

\* A variant of stopLoading that leaves the flag as it is.
StopLoadingKeepsFlag(ui) == [ ui EXCEPT !.calls = @ - 1 ]

StopLoading(ui) == [ ui EXCEPT !.isLoading = FALSE, !.calls = @ - 1 ]

SetUi(ui) ==
  /\ error' = ui.error
  /\ isLoading' = ui.isLoading
  /\ timers' = ui.timers
  /\ loadingCalls' = ui.calls

\* Room for n more pending timers (bounds the model, not the program).
TimerRoom(n) == timers + n <= MaxTimers

(* ------------------------------------------------ route guard and router *)

\* A variant of ProtectedRoute without the check of user.
ProtectedRouteNoUserCheck(u, init, loading) ==
  IF ~init THEN "checking"
  ELSE IF loading THEN "loading"
  ELSE "children"

\* ProtectedRoute: what it returns for the session and busy flag it reads.
ProtectedRoute(u, init, loading) ==
  IF ~init THEN "checking"
  ELSE IF u = Null THEN "redirect"
  ELSE IF loading THEN "loading"
  ELSE "children"

\* What is on screen: AuthProvider shows its spinner until initialized, then
\* the element of the matching Route, through ProtectedRoute where wrapped.
Rendered(p, u, init, loading) ==
  IF ~init THEN "initializing"
  ELSE IF p \in ProtectedPages THEN
    LET d == ProtectedRoute(u, init, loading) IN IF d = "children" THEN p ELSE d
  ELSE p

Screen == Rendered(page, user, isInitialized, isLoading)

\* Where the router ends up when asked for p: <Navigate to="/login" replace />.
Land(p, u, init, loading) ==
  IF Rendered(p, u, init, loading) = "redirect" THEN "/login" ELSE p

\* showError is a new function at every render of UIProvider, and UIProvider
\* renders when its state changes; the error it held at a render stands for
\* the showError of that render, NoRender for none (nothing mounted yet).
NoRender == "<none>"

\* ProfilePage's effect has [showError] as dependencies: it is pending from
\* the mount of the page, and again from every render with a new showError,
\* until it has run. React runs a pending effect before it handles the
\* next event, so the handlers below wait for it.
EffectDue == Screen = "/profile" /\ profilePage.showError # error

(* ------------------------------------------------------------ requests *)
(* A request in flight: its number, the operation, who awaits it, the      *)
(* bearer token it carries, and whether the component instance awaiting    *)
(* it is still mounted (state updates of an unmounted instance are lost).  *)

Request(op, caller, bearer) ==
  [ id |-> nextId, op |-> op, caller |-> caller, bearer |-> bearer, live |-> TRUE ]

CanIssue == nextId <= MaxRequests

Issue(r) ==
  /\ requests' = requests \cup { r }
  /\ nextId' = nextId + 1

\* The callers that live in the element of a route: their state updates
\* are lost once the router shows another route.
Owners(p) ==
  IF p = "/chat" THEN { "chatPage" }
  ELSE IF p = "/profile" THEN { "profilePage", "profileSubmit" }
  ELSE { }

\* The requests left when the router shows newPage: those awaited by a chat
\* view or a profile page that was unmounted on the way are orphaned.
Remaining(reqs, newPage) ==
  IF newPage # page
  THEN { IF q.caller \in Owners(page) THEN [ q EXCEPT !.live = FALSE ] ELSE q : q \in reqs }
  ELSE reqs

NoResponse == [ status |-> -1, data |-> NoData ]

\* What the last step was: the handler, the request it issued or saw settle,
\* what it returned to its caller and the answer the request got. Steps that neither call the
\* transport nor touch the session (typing, navigating, a timer) leave Idle.
Did(op, id, ret, resp) ==
  [ op |-> op, id |-> id, ret |-> ret, resp |-> resp, raised |-> Undefined ]

\* The same for a step in which a transport call ended with outcome out:
\* raised is the message of the error the call raised, if it raised one.
Saw(op, id, ret, resp, out) ==
  [ op |-> op, id |-> id, ret |-> ret, resp |-> resp, raised |-> out.message ]

Idle == Did("idle", 0, Undefined, NoResponse)

(* ------------------------------------------------- page-local component state *)

\* ChatPage's useState initial values; the state a fresh mount starts from.
ChatReset ==
  /\ messages' = << >>
  /\ inputMessage' = ""
  /\ chatLoading' = FALSE

\* ProfilePage's useState initial values, before its effect has run.
ProfileMount == [ isLoading |-> TRUE, isEditing |-> FALSE, showError |-> NoRender ]

\* The router now shows newPage: a page that is left loses its local state.
GoTo(newPage) ==
  /\ page' = newPage
  /\ IF page = "/chat" /\ newPage # "/chat" THEN ChatReset ELSE UNCHANGED chatVars
  /\ profilePage' = IF newPage # page THEN ProfileMount ELSE profilePage
  /\ step' = IF newPage = "/onboarding" /\ page = "/onboarding" THEN step ELSE FirstStep

Init ==
  /\ token \in Tokens \cup { NoToken }
  /\ user = Null
  /\ isInitialized = FALSE
  /\ authPc = "uninitialized"
  /\ error = Null
  /\ isLoading = FALSE
  /\ timers = 0
  /\ loadingCalls = 0
  /\ page \in Pages
  /\ messages = << >>
  /\ inputMessage = ""
  /\ chatLoading = FALSE
  /\ step = FirstStep
  /\ profilePage = ProfileMount
  /\ now = 0
  /\ sinceLogout = FALSE
  /\ chatMessages = << "welcome" >>
  /\ legacyChats = 0
  /\ legacyClears = 0
  /\ requests = { }
  /\ nextId = 1
  /\ last = Did("start", 0, Undefined, NoResponse)

(* ------------------------------------------------------ session startup *)

\* AuthProvider's mount effect, up to the await of getProfile (or to the end
\* when no token is stored).
InitializeAuth ==
  /\ authPc = "uninitialized"
  /\ IF HasToken(token)
     THEN /\ CanIssue
          /\ Issue(Request("getProfile", "initializeAuth", token))
          /\ authPc' = "checking"
          /\ UNCHANGED << token, user, isInitialized, page >>
     ELSE /\ isInitialized' = TRUE
          /\ authPc' = "done"
          /\ page' = Land(page, user, TRUE, isLoading)
          /\ UNCHANGED << token, user, netVars >>
  /\ last' = Did("initializeAuth", 0, Undefined, NoResponse)
  /\ UNCHANGED << uiVars, chatVars, step, profilePage >>
  /\ UNCHANGED << now, sinceLogout, legacyVars >>

\* A variant of initializeAuth whose catch block does not remove the token.
InitializeAuthSettledKeepsToken(r, resp) ==
  /\ r \in requests /\ r.caller = "initializeAuth"
  /\ LET out == ApiGetProfile(resp, token) IN
       /\ token' = out.stored
       /\ user' = IF out.threw THEN user ELSE out.data.user
       /\ isInitialized' = TRUE
       /\ authPc' = "done"
       /\ page' = Land(page, user', TRUE, isLoading)
       /\ last' = Saw("initializeAuth.settled", r.id,
                      IF out.threw THEN "failed" ELSE "ok", resp, out)
  /\ requests' = requests \ { r }
  /\ UNCHANGED << nextId, uiVars, chatVars, step, profilePage >>
  /\ UNCHANGED << now, sinceLogout, legacyVars >>

\* A variant of initializeAuth that returns from its catch block, before
\* setIsInitialized(true).
InitializeAuthSettledReturnsEarly(r, resp) ==
  /\ r \in requests /\ r.caller = "initializeAuth"
  /\ LET out == ApiGetProfile(resp, token) IN
       /\ token' = IF out.threw THEN NoToken ELSE out.stored
       /\ user' = IF out.threw THEN user ELSE out.data.user
       /\ isInitialized' = ~out.threw
       /\ authPc' = IF out.threw THEN "failed" ELSE "done"
       /\ page' = Land(page, user', isInitialized', isLoading)
       /\ last' = Saw("initializeAuth.settled", r.id,
                      IF out.threw THEN "failed" ELSE "ok", resp, out)
  /\ requests' = requests \ { r }
  /\ UNCHANGED << nextId, uiVars, chatVars, step, profilePage >>
  /\ UNCHANGED << now, sinceLogout, legacyVars >>

\* initializeAuth once its getProfile has settled.
InitializeAuthSettled(r, resp) ==
  /\ r \in requests /\ r.caller = "initializeAuth"
  /\ LET out == ApiGetProfile(resp, token) IN
       /\ token' = IF out.threw THEN NoToken ELSE out.stored
       /\ user' = IF out.threw THEN user ELSE out.data.user
       /\ isInitialized' = TRUE
       /\ authPc' = "done"
       /\ page' = Land(page, user', TRUE, isLoading)
       /\ last' = Saw("initializeAuth.settled", r.id,
                      IF out.threw THEN "failed" ELSE "ok", resp, out)
  /\ requests' = requests \ { r }
  /\ UNCHANGED << nextId, uiVars, chatVars, step, profilePage >>
  /\ UNCHANGED << now, sinceLogout, legacyVars >>

(* ------------------------------------------------------- login, logout *)

\* AuthProvider.login up to the await: startLoading, then ApiService.login
\* issues its fetch. The login page is the '/login' route of App.
LoginStart ==
  /\ Screen = "/login"
  /\ CanIssue
  /\ SetUi(StartLoading(Ui))
  /\ Issue(Request("login", "login", NoToken))
  /\ last' = Did("login", nextId, "pending", NoResponse)
  /\ UNCHANGED << authVars, page, chatVars, step, profilePage >>
  /\ sinceLogout' = FALSE
  /\ UNCHANGED << now, legacyVars >>

\* A variant of login that returns true without calling setUser.
LoginSettledForgetsUser(r, resp) ==
  /\ ~EffectDue
  /\ r \in requests /\ r.caller = "login"
  /\ LET out == ApiLogin(resp, token) IN
       /\ token' = out.stored
       /\ user' = user
       /\ IF out.threw
          THEN /\ TimerRoom(1)
               /\ SetUi(StopLoading(ShowError(Ui,
                    "Login failed: " \o OrElse(out.message, "Please try again"))))
               /\ last' = Saw("login.settled", r.id, "false", resp, out)
          ELSE /\ SetUi(StopLoading(Ui))
               /\ last' = Saw("login.settled", r.id, "true", resp, out)
  /\ requests' = requests \ { r }
  /\ UNCHANGED << isInitialized, authPc, nextId, page, chatVars, step, profilePage >>
  /\ UNCHANGED << now, sinceLogout, legacyVars >>

\* The rest of login once the fetch has settled: setUser and return true, or
\* showError and return false; stopLoading either way.
LoginSettled(r, resp) ==
  /\ ~EffectDue
  /\ r \in requests /\ r.caller = "login"
  /\ LET out == ApiLogin(resp, token) IN
       /\ token' = out.stored
       /\ IF out.threw
          THEN /\ TimerRoom(1)
               /\ user' = user
               /\ SetUi(StopLoading(ShowError(Ui,
                    "Login failed: " \o OrElse(out.message, "Please try again"))))
               /\ last' = Saw("login.settled", r.id, "false", resp, out)
          ELSE /\ user' = out.data.user
               /\ SetUi(StopLoading(Ui))
               /\ last' = Saw("login.settled", r.id, "true", resp, out)
  /\ requests' = requests \ { r }
  /\ UNCHANGED << isInitialized, authPc, nextId, page, chatVars, step, profilePage >>
  /\ UNCHANGED << now, sinceLogout, legacyVars >>

\* A variant of logout that clears the user and leaves the token stored.
LogoutKeepsToken ==
  /\ Screen = "/"
  /\ user # Null
  /\ user' = Null
  /\ GoTo("/")
  /\ last' = Did("logout", 0, Undefined, NoResponse)
  /\ UNCHANGED << token, isInitialized, authPc, uiVars, netVars >>
  /\ sinceLogout' = TRUE
  /\ UNCHANGED << now, legacyVars >>

\* Navbar.handleLogout: logout() (remove the token, clear the user), then
\* navigate('/'). The button is rendered only while user is set.
Logout ==
  /\ Screen = "/"
  /\ user # Null
  /\ token' = NoToken
  /\ user' = Null
  /\ GoTo("/")
  /\ last' = Did("logout", 0, Undefined, NoResponse)
  /\ UNCHANGED << isInitialized, authPc, uiVars, netVars >>
  /\ sinceLogout' = TRUE
  /\ UNCHANGED << now, legacyVars >>

(* --------------------------------------------------------------- signup *)

\* SignupPage.handleSubmit with passwords that differ: showError and return.
SignupMismatch ==
  /\ Screen = "/signup"
  /\ TimerRoom(1)
  /\ SetUi(ShowError(Ui, "Passwords don't match!"))
  /\ last' = Did("signupPage.mismatch", 0, Undefined, NoResponse)
  /\ UNCHANGED << authVars, page, chatVars, step, profilePage, netVars >>
  /\ UNCHANGED << now, sinceLogout, legacyVars >>

\* SignupPage.handleSubmit with matching passwords, into AuthProvider.signup,
\* up to the await: startLoading twice, then ApiService.signup's fetch.
SignupStart ==
  /\ Screen = "/signup"
  /\ CanIssue
  /\ SetUi(StartLoading(StartLoading(Ui)))
  /\ Issue(Request("signup", "signupPage", NoToken))
  /\ last' = Did("signup", nextId, "pending", NoResponse)
  /\ UNCHANGED << authVars, page, chatVars, step, profilePage >>
  /\ sinceLogout' = FALSE
  /\ UNCHANGED << now, legacyVars >>

\* A variant of AuthProvider.signup whose catch block does not re-raise.
SignupAfterSwallows(out, ui) ==
  IF out.threw
  THEN [ ui |-> StopLoading(ShowError(ui,
                  "Signup failed: " \o OrElse(out.message, "Please try again"))),
         threw |-> FALSE, data |-> NoData, message |-> Undefined,
         setUser |-> FALSE ]
  ELSE [ ui |-> StopLoading(ui), threw |-> FALSE, data |-> out.data,
         message |-> Undefined, setUser |-> TRUE ]

\* AuthProvider.signup once the fetch has settled: what it leaves in the
\* notification layer, and whether it returns the payload or re-raises.
SignupAfter(out, ui) ==
  IF out.threw
  THEN [ ui |-> StopLoading(ShowError(ui,
                  "Signup failed: " \o OrElse(out.message, "Please try again"))),
         threw |-> TRUE, data |-> NoData, message |-> out.message,
         setUser |-> FALSE ]
  ELSE [ ui |-> StopLoading(ui), threw |-> FALSE, data |-> out.data,
         message |-> Undefined, setUser |-> TRUE ]

\* The settled signup, through AuthProvider.signup and back into
\* SignupPage.handleSubmit: navigate('/onboarding') on a payload, showError
\* on an error, stopLoading either way.
SignupSettled(r, resp) ==
  /\ ~EffectDue
  /\ r \in requests /\ r.caller = "signupPage"
  /\ LET out == ApiSignup(resp, token)
         auth == SignupAfter(out, Ui)
         to == IF ~auth.threw /\ auth.data # NoData THEN "/onboarding" ELSE page
     IN
       /\ token' = out.stored
       /\ user' = IF auth.setUser THEN auth.data.user ELSE user
       /\ IF auth.threw
          THEN TimerRoom(2) /\ SetUi(StopLoading(ShowError(auth.ui, auth.message)))
          ELSE SetUi(StopLoading(auth.ui))
       /\ GoTo(to)
       /\ requests' = Remaining(requests \ { r }, to)
       /\ last' = Saw("signup.settled", r.id,
                      IF auth.threw THEN "threw" ELSE "data", resp, out)
  /\ UNCHANGED << isInitialized, authPc, nextId >>
  /\ UNCHANGED << now, sinceLogout, legacyVars >>

(* ----------------------------------------------------------- navigation *)

\* The user follows a link or the history to route p (the Links of Navbar,
\* LandingPage's navigate('/chat'), the browser's back and forward).
Navigate(p) ==
  /\ ~EffectDue
  /\ isInitialized
  /\ p # page
  /\ LET to == Land(p, user, isInitialized, isLoading) IN
       /\ to # page
       /\ GoTo(to)
       /\ requests' = Remaining(requests, to)
  /\ last' = Idle
  /\ UNCHANGED << authVars, uiVars, nextId >>
  /\ UNCHANGED << now, sinceLogout, legacyVars >>

(* ----------------------------------------------------------- onboarding *)

\* A variant of handleBack without the test of step.
HandleBackUnguarded ==
  /\ Screen = "/onboarding"
  /\ step' = step - 1
  /\ last' = Idle
  /\ UNCHANGED << authVars, uiVars, page, chatVars, profilePage, netVars >>
  /\ UNCHANGED << now, sinceLogout, legacyVars >>

\* OnboardingPage.handleBack.
HandleBack ==
  /\ Screen = "/onboarding"
  /\ step' = IF step > FirstStep THEN step - 1 ELSE step
  /\ last' = Idle
  /\ UNCHANGED << authVars, uiVars, page, chatVars, profilePage, netVars >>
  /\ UNCHANGED << now, sinceLogout, legacyVars >>

\* OnboardingPage.handleNext before the last step.
HandleNext ==
  /\ Screen = "/onboarding"
  /\ step < LastStep
  /\ step' = step + 1
  /\ last' = Idle
  /\ UNCHANGED << authVars, uiVars, page, chatVars, profilePage, netVars >>
  /\ UNCHANGED << now, sinceLogout, legacyVars >>

\* OnboardingPage.handleNext at the last step, into handleSubmit up to the
\* await: startLoading, then updateProfile, which raises at once when no
\* token is stored (showError, stopLoading) and issues its fetch otherwise.
OnboardingSubmit ==
  /\ Screen = "/onboarding"
  /\ ~(step < LastStep)
  /\ IF HasToken(token)
     THEN /\ CanIssue
          /\ SetUi(StartLoading(Ui))
          /\ Issue(Request("updateProfile", "onboarding", token))
          /\ last' = Did("onboarding.submit", nextId, "pending", NoResponse)
     ELSE /\ TimerRoom(1)
          /\ SetUi(StopLoading(ShowError(StartLoading(Ui),
               "Failed to save preferences: " \o NoTokenMessage)))
          /\ UNCHANGED netVars
          /\ last' = Saw("onboarding.submit", 0, "failed", NoResponse,
                         Raised(token, NoTokenMessage))
  /\ UNCHANGED << authVars, page, chatVars, step, profilePage >>
  /\ UNCHANGED << now, sinceLogout, legacyVars >>

\* handleSubmit once updateProfile has settled: navigate('/chat'), or
\* showError; stopLoading either way.
OnboardingSettled(r, resp) ==
  /\ ~EffectDue
  /\ r \in requests /\ r.caller = "onboarding"
  /\ LET out == ApiUpdateProfile(resp, token) IN
       /\ token' = out.stored
       /\ IF out.threw
          THEN /\ TimerRoom(1)
               /\ SetUi(StopLoading(ShowError(Ui,
                    "Failed to save preferences: " \o out.message)))
               /\ UNCHANGED << page, chatVars, step, profilePage >>
               /\ requests' = requests \ { r }
               /\ last' = Saw("onboarding.settled", r.id, "failed", resp, out)
          ELSE /\ SetUi(StopLoading(Ui))
               /\ LET to == Land("/chat", user, isInitialized, FALSE) IN
                    /\ GoTo(to)
                    /\ requests' = Remaining(requests \ { r }, to)
               /\ last' = Saw("onboarding.settled", r.id, "ok", resp, out)
  /\ UNCHANGED << user, isInitialized, authPc, nextId >>
  /\ UNCHANGED << now, sinceLogout, legacyVars >>

(* --------------------------------------------------------- profile page *)

\* The requests left when ProfilePage's effect is cleaned up: isMounted of
\* the run before is set to false, so its fetch no longer updates the page.
CleanedUp(reqs) ==
  { IF q.caller = "profilePage" THEN [ q EXCEPT !.live = FALSE ] ELSE q : q \in reqs }

\* ProfilePage's effect: the cleanup of the run before, then fetchProfile up
\* to the await of getProfile, which raises at once when no token is stored
\* (showError, local isLoading cleared) and issues its fetch otherwise.
ProfileEffect ==
  /\ EffectDue
  /\ IF HasToken(token)
     THEN /\ CanIssue
          /\ requests' = CleanedUp(requests) \cup { Request("getProfile", "profilePage", token) }
          /\ nextId' = nextId + 1
          /\ profilePage' = [ profilePage EXCEPT !.showError = error ]
          /\ UNCHANGED uiVars
          /\ last' = Did("profile.fetch", nextId, "pending", NoResponse)
     ELSE /\ TimerRoom(1)
          /\ requests' = CleanedUp(requests)
          /\ nextId' = nextId
          /\ profilePage' = [ profilePage EXCEPT !.showError = error, !.isLoading = FALSE ]
          /\ SetUi(ShowError(Ui, "Failed to load profile: " \o NoTokenMessage))
          /\ last' = Saw("profile.fetch", 0, "failed", NoResponse,
                         Raised(token, NoTokenMessage))
  /\ UNCHANGED << authVars, page, chatVars, step >>
  /\ UNCHANGED << now, sinceLogout, legacyVars >>

\* A variant of fetchProfile that does not look at isMounted.
ProfileFetchSettledUnguarded(r, resp) ==
  /\ ~EffectDue
  /\ r \in requests /\ r.caller = "profilePage"
  /\ LET out == ApiGetProfile(resp, token) IN
       /\ token' = out.stored
       /\ profilePage' = [ profilePage EXCEPT !.isLoading = FALSE ]
       /\ IF out.threw
          THEN /\ TimerRoom(1)
               /\ SetUi(ShowError(Ui, "Failed to load profile: " \o out.message))
          ELSE UNCHANGED uiVars
       /\ last' = Saw("profile.settled", r.id,
                      IF ~r.live THEN "dropped" ELSE IF out.threw THEN "failed" ELSE "ok",
                      resp, out)
  /\ requests' = requests \ { r }
  /\ UNCHANGED << user, isInitialized, authPc, page, chatVars, step, nextId >>
  /\ UNCHANGED << now, sinceLogout, legacyVars >>

\* fetchProfile once getProfile has settled: setProfile, or showError; local
\* isLoading cleared; all three only while isMounted is still true.
ProfileFetchSettled(r, resp) ==
  /\ ~EffectDue
  /\ r \in requests /\ r.caller = "profilePage"
  /\ LET out == ApiGetProfile(resp, token) IN
       /\ token' = out.stored
       /\ IF r.live
          THEN /\ profilePage' = [ profilePage EXCEPT !.isLoading = FALSE ]
               /\ IF out.threw
                  THEN /\ TimerRoom(1)
                       /\ SetUi(ShowError(Ui, "Failed to load profile: " \o out.message))
                  ELSE UNCHANGED uiVars
          ELSE UNCHANGED << profilePage, uiVars >>
       /\ last' = Saw("profile.settled", r.id,
                      IF ~r.live THEN "dropped" ELSE IF out.threw THEN "failed" ELSE "ok",
                      resp, out)
  /\ requests' = requests \ { r }
  /\ UNCHANGED << user, isInitialized, authPc, page, chatVars, step, nextId >>
  /\ UNCHANGED << now, sinceLogout, legacyVars >>

\* The Edit / Cancel button: setIsEditing(!isEditing).
ToggleEdit ==
  /\ Screen = "/profile"
  /\ ~EffectDue
  /\ ~profilePage.isLoading
  /\ profilePage' = [ profilePage EXCEPT !.isEditing = ~@ ]
  /\ last' = Idle
  /\ UNCHANGED << authVars, uiVars, page, chatVars, step, netVars >>
  /\ UNCHANGED << now, sinceLogout, legacyVars >>

\* ProfilePage.handleSubmit up to the await of updateProfile (the form can
\* be submitted only while it is being edited): local isLoading set, then
\* the fetch, or with no token stored the error raised at once and shown.
ProfileSubmit ==
  /\ Screen = "/profile"
  /\ ~EffectDue
  /\ ~profilePage.isLoading
  /\ profilePage.isEditing
  /\ IF HasToken(token)
     THEN /\ CanIssue
          /\ Issue(Request("updateProfile", "profileSubmit", token))
          /\ profilePage' = [ profilePage EXCEPT !.isLoading = TRUE ]
          /\ UNCHANGED uiVars
          /\ last' = Did("profile.submit", nextId, "pending", NoResponse)
     ELSE /\ TimerRoom(1)
          /\ SetUi(ShowError(Ui, "Failed to update profile: " \o NoTokenMessage))
          /\ profilePage' = [ profilePage EXCEPT !.isLoading = FALSE ]
          /\ UNCHANGED netVars
          /\ last' = Saw("profile.submit", 0, "failed", NoResponse,
                         Raised(token, NoTokenMessage))
  /\ UNCHANGED << authVars, page, chatVars, step >>
  /\ UNCHANGED << now, sinceLogout, legacyVars >>

\* handleSubmit once updateProfile has settled: editing ends and the success
\* message is shown through showError, or the failure is; local isLoading
\* cleared. The local state of an unmounted page is gone, showError is not.
ProfileSubmitSettled(r, resp) ==
  /\ ~EffectDue
  /\ r \in requests /\ r.caller = "profileSubmit"
  /\ TimerRoom(1)
  /\ LET out == ApiUpdateProfile(resp, token) IN
       /\ token' = out.stored
       /\ SetUi(ShowError(Ui, IF out.threw
                              THEN "Failed to update profile: " \o out.message
                              ELSE "Profile updated successfully!"))
       /\ profilePage' =
            IF r.live
            THEN [ profilePage EXCEPT !.isLoading = FALSE,
                                      !.isEditing = IF out.threw THEN @ ELSE FALSE ]
            ELSE profilePage
       /\ last' = Saw("profileSubmit.settled", r.id,
                      IF out.threw THEN "failed" ELSE "ok", resp, out)
  /\ requests' = requests \ { r }
  /\ UNCHANGED << user, isInitialized, authPc, page, chatVars, step, nextId >>
  /\ UNCHANGED << now, sinceLogout, legacyVars >>

(* ------------------------------------------------------------ chat view *)

\* A transcript entry: its id is Date.now() for a user entry and
\* Date.now() + 1 for an assistant entry; req is the number of the request
\* of the send the entry belongs to (0 when the send issued none), kept to
\* tell sends apart.
Entry(content, sender, req) ==
  [ id |-> IF sender = "user" THEN now ELSE now + 1,
    content |-> content, sender |-> sender, req |-> req ]

\* A variant that puts the new entry first: [entry, ...prev].
Prepended(msgs, entry) == << entry >> \o msgs

\* setMessages(prev => [...prev, entry]).
Appended(msgs, entry) == Append(msgs, entry)

\* The input's onChange.
TypeInput(s) ==
  /\ Screen = "/chat"
  /\ s # inputMessage
  /\ inputMessage' = s
  /\ last' = Idle
  /\ UNCHANGED << authVars, uiVars, page, messages, chatLoading, step, profilePage, netVars >>
  /\ UNCHANGED << now, sinceLogout, legacyVars >>

\* A variant of the first line that forgets trim(): if (!inputMessage) return.
AcceptedUntrimmed(input) == input # ""

\* handleSendMessage's first line: nothing is sent for an input that trims
\* to the empty string.
Accepted(input) == Trim(input) # ""

\* A variant that does not look at the body's success flag.
ChatOutcomeIgnoresFlag(out, req) ==
  IF ~out.threw
  THEN [ entry |-> Entry(OrElse(out.data.response, out.data.message), "assistant", req),
         failed |-> FALSE, message |-> Undefined ]
  ELSE [ entry |-> Entry(ChatErrorContent, "assistant", req),
         failed |-> TRUE,
         message |-> "Failed to send message: " \o out.message ]

\* A variant that shows the generic text in place of the reply.
ChatOutcomeGenericReply(out, req) ==
  IF ~out.threw /\ out.data.success
  THEN [ entry |-> Entry(ChatErrorContent, "assistant", req),
         failed |-> FALSE, message |-> Undefined ]
  ELSE [ entry |-> Entry(ChatErrorContent, "assistant", req),
         failed |-> TRUE,
         message |-> "Failed to send message: " \o
                       (IF out.threw THEN out.message
                        ELSE OrElse(out.data.error, "Failed to get response")) ]

\* A variant whose catch block appends its entry with sender 'user'.
ChatOutcomeErrorAsUser(out, req) ==
  IF ~out.threw /\ out.data.success
  THEN [ entry |-> Entry(OrElse(out.data.response, out.data.message), "assistant", req),
         failed |-> FALSE, message |-> Undefined ]
  ELSE [ entry |-> Entry(ChatErrorContent, "user", req),
         failed |-> TRUE,
         message |-> "Failed to send message: " \o
                       (IF out.threw THEN out.message
                        ELSE OrElse(out.data.error, "Failed to get response")) ]

\* A variant whose catch block appends its entry with sender 'system'.
ChatOutcomeErrorAsSystem(out, req) ==
  IF ~out.threw /\ out.data.success
  THEN [ entry |-> Entry(OrElse(out.data.response, out.data.message), "assistant", req),
         failed |-> FALSE, message |-> Undefined ]
  ELSE [ entry |-> Entry(ChatErrorContent, "system", req),
         failed |-> TRUE,
         message |-> "Failed to send message: " \o
                       (IF out.threw THEN out.message
                        ELSE OrElse(out.data.error, "Failed to get response")) ]

\* What handleSendMessage does with the outcome of sendChatMessage: the
\* assistant entry it appends and the error it shows, if any.
ChatOutcome(out, req) ==
  IF ~out.threw /\ out.data.success
  THEN [ entry |-> Entry(OrElse(out.data.response, out.data.message), "assistant", req),
         failed |-> FALSE, message |-> Undefined ]
  ELSE [ entry |-> Entry(ChatErrorContent, "assistant", req),
         failed |-> TRUE,
         message |-> "Failed to send message: " \o
                       (IF out.threw THEN out.message
                        ELSE OrElse(out.data.error, "Failed to get response")) ]

\* The sends of the mounted chat view whose request is still in flight.
InFlight == { q \in requests : q.caller = "chatPage" /\ q.live }

\* Room for one more send's two entries, counting the replies still to come
\* (bounds the model, not the program).
TranscriptRoom == Len(messages) + Cardinality(InFlight) + 2 <= MaxTranscript

\* handleSendMessage on an input it rejects: it returns at once.
ChatSubmitEmpty ==
  /\ Screen = "/chat"
  /\ ~Accepted(inputMessage)
  /\ last' = Did("chat.submit", 0, "rejected", NoResponse)
  /\ UNCHANGED << authVars, uiVars, page, chatVars, step, profilePage, netVars >>
  /\ UNCHANGED << now, sinceLogout, legacyVars >>

\* handleSendMessage on an accepted input, up to the await: append the user
\* entry, clear the input, set the busy flag, call sendChatMessage. The
\* handler is bound to the form's submit event and does not read the busy
\* flag itself (only the button carries disabled={isLoading}), so it may run
\* while an earlier send is in flight. With no
\* token stored sendChatMessage raises before any fetch and the handler runs
\* to its end: showError, the error entry, busy flag cleared.
ChatSubmit ==
  /\ Screen = "/chat"
  /\ Accepted(inputMessage)
  /\ TranscriptRoom
  /\ inputMessage' = ""
  /\ IF HasToken(token)
     THEN /\ CanIssue
          /\ messages' = Appended(messages, Entry(inputMessage, "user", nextId))
          /\ chatLoading' = TRUE
          /\ Issue(Request("chat", "chatPage", token))
          /\ UNCHANGED uiVars
          /\ last' = Did("chat.submit", nextId, "pending", NoResponse)
     ELSE LET out == Raised(token, NoTokenMessage)
              res == ChatOutcome(out, 0)
          IN
          /\ TimerRoom(1)
          /\ messages' = Appended(Appended(messages, Entry(inputMessage, "user", 0)),
                                   res.entry)
          /\ chatLoading' = FALSE
          /\ SetUi(ShowError(Ui, res.message))
          /\ UNCHANGED netVars
          /\ last' = Saw("chat.submit", 0, "failed", NoResponse, out)
  /\ UNCHANGED << authVars, page, step, profilePage >>
  /\ UNCHANGED << now, sinceLogout, legacyVars >>

\* A variant that clears the busy flag after the reply only, not in a finally
\* block, so that a failed send leaves it set.
ChatSettledNoFinally(r, resp) ==
  /\ ~EffectDue
  /\ r \in requests /\ r.caller = "chatPage"
  /\ LET out == ApiSendChatMessage(resp, token)
         res == ChatOutcome(out, r.id)
     IN
       /\ token' = out.stored
       /\ IF res.failed
          THEN TimerRoom(1) /\ SetUi(ShowError(Ui, res.message))
          ELSE UNCHANGED uiVars
       /\ IF r.live
          THEN /\ messages' = Appended(messages, res.entry)
               /\ chatLoading' = IF res.failed THEN chatLoading ELSE FALSE
               /\ UNCHANGED inputMessage
          ELSE UNCHANGED chatVars
       /\ last' = Saw("chat.settled", r.id, IF res.failed THEN "failed" ELSE "ok", resp, out)
  /\ requests' = requests \ { r }
  /\ UNCHANGED << user, isInitialized, authPc, page, step, profilePage, nextId >>
  /\ UNCHANGED << now, sinceLogout, legacyVars >>

\* handleSendMessage once sendChatMessage has settled: the assistant entry
\* (the reply, or the generic error with showError), then the busy flag is
\* cleared. The state updates of an unmounted view are dropped.
ChatSettled(r, resp) ==
  /\ ~EffectDue
  /\ r \in requests /\ r.caller = "chatPage"
  /\ LET out == ApiSendChatMessage(resp, token)
         res == ChatOutcome(out, r.id)
     IN
       /\ token' = out.stored
       /\ IF res.failed
          THEN TimerRoom(1) /\ SetUi(ShowError(Ui, res.message))
          ELSE UNCHANGED uiVars
       /\ IF r.live
          THEN /\ messages' = Appended(messages, res.entry)
               /\ chatLoading' = FALSE
               /\ UNCHANGED inputMessage
          ELSE UNCHANGED chatVars
       /\ last' = Saw("chat.settled", r.id, IF res.failed THEN "failed" ELSE "ok", resp, out)
  /\ requests' = requests \ { r }
  /\ UNCHANGED << user, isInitialized, authPc, page, step, profilePage, nextId >>
  /\ UNCHANGED << now, sinceLogout, legacyVars >>

(* --------------------------------------------------------------- timers *)

\* A callback scheduled by showError fires: setError(null).
ClearError ==
  /\ ~EffectDue
  /\ timers > 0
  /\ timers' = timers - 1
  /\ error' = Null
  /\ last' = Idle
  /\ UNCHANGED << authVars, isLoading, loadingCalls, page, chatVars, step,
                  profilePage, netVars >>
  /\ UNCHANGED << now, sinceLogout, legacyVars >>

(* ---------------------------------------------------------------- clock *)

\* A millisecond passes.
Tick ==
  /\ now < MaxClock
  /\ now' = now + 1
  /\ last' = Idle
  /\ UNCHANGED << authVars, uiVars, page, chatVars, step, profilePage, netVars,
                  sinceLogout, legacyVars >>

(* ---------------------------------------------------------- legacy chat *)
(* The plain-HTML chat page: its message list is the sequence of the kinds *)
(* of the children of the chat-messages element.                           *)

\* What the page's POST /chat may end with: a body with success true, a
\* body with success false (whatever the status, which is not looked at),
\* or an exception (the fetch rejected or the body did not parse).
LegacyAnswers == { "reply", "refused", "exception" }

\* addMessage(content, type): one more child of the given type.
AddMessage(children, type) == Append(children, type)

\* showTypingIndicator: one more child with id 'typing-indicator'.
ShowTypingIndicator(children) == Append(children, "indicator")

\* Where the first child with id 'typing-indicator' stands, 0 when none.
FirstIndicator(children) ==
  IF \E i \in 1 .. Len(children) : children[i] = "indicator"
  THEN CHOOSE i \in 1 .. Len(children) :
         /\ children[i] = "indicator"
         /\ \A j \in 1 .. i - 1 : children[j] # "indicator"
  ELSE 0

\* removeTypingIndicator: getElementById finds the first such child, which
\* is removed; nothing happens when there is none.
RemoveTypingIndicator(children) ==
  LET i == FirstIndicator(children) IN
    IF i = 0 THEN children
    ELSE SubSeq(children, 1, i - 1) \o SubSeq(children, i + 1, Len(children))

\* How many typing indicators the list shows.
Indicators(children) ==
  Cardinality({ i \in 1 .. Len(children) : children[i] = "indicator" })

\* The submit handler of the chat form up to its await: a blank input is
\* dropped, otherwise the user message and a typing indicator are added and
\* the fetch of /chat is issued.
LegacySubmit(input) ==
  /\ IF Trim(input) = ""
     THEN /\ UNCHANGED legacyVars
          /\ last' = Did("legacy.submit", 0, "rejected", NoResponse)
     ELSE /\ legacyChats < MaxRequests
          /\ Len(chatMessages) + 2 <= MaxChildren
          /\ chatMessages' = ShowTypingIndicator(AddMessage(chatMessages, "user"))
          /\ legacyChats' = legacyChats + 1
          /\ UNCHANGED legacyClears
          /\ last' = Did("legacy.submit", 0, "pending", NoResponse)
  /\ UNCHANGED << authVars, uiVars, page, chatVars, step, profilePage, netVars,
                  now, sinceLogout >>

\* The submit handler once its fetch has settled: the indicator is removed,
\* then the reply or an error message is added.
LegacySettled(answer) ==
  /\ legacyChats > 0
  /\ Len(RemoveTypingIndicator(chatMessages)) + 1 <= MaxChildren
  /\ legacyChats' = legacyChats - 1
  /\ chatMessages' = AddMessage(RemoveTypingIndicator(chatMessages),
                                IF answer = "reply" THEN "assistant" ELSE "system")
  /\ last' = Did("legacy.settled", 0, answer, NoResponse)
  /\ UNCHANGED << authVars, uiVars, page, chatVars, step, profilePage, netVars,
                  now, sinceLogout, legacyClears >>

\* The click handler of the clear button up to its await of /clear.
LegacyClear ==
  /\ legacyClears < MaxRequests
  /\ legacyClears' = legacyClears + 1
  /\ last' = Did("legacy.clear", 0, "pending", NoResponse)
  /\ UNCHANGED << authVars, uiVars, page, chatVars, step, profilePage, netVars,
                  now, sinceLogout, chatMessages, legacyChats >>

\* The click handler once /clear has settled: the list is replaced by the
\* welcome message (innerHTML), or, when the fetch rejected, an error
\* message is added.
LegacyClearSettled(resolved) ==
  /\ legacyClears > 0
  /\ legacyClears' = legacyClears - 1
  /\ IF resolved
     THEN chatMessages' = << "welcome" >>
     ELSE /\ Len(chatMessages) + 1 <= MaxChildren
          /\ chatMessages' = AddMessage(chatMessages, "system")
  /\ last' = Did("legacy.cleared", 0, IF resolved THEN "ok" ELSE "failed", NoResponse)
  /\ UNCHANGED << authVars, uiVars, page, chatVars, step, profilePage, netVars,
                  now, sinceLogout, legacyChats >>

(* -------------------------------------------------------- specification *)

Next ==
  \/ InitializeAuth
  \/ \E r \in requests, resp \in ProfileAnswers : InitializeAuthSettled(r, resp)
  \/ LoginStart
  \/ \E r \in requests, resp \in LoginAnswers : LoginSettled(r, resp)
  \/ Logout
  \/ SignupMismatch
  \/ SignupStart
  \/ \E r \in requests, resp \in LoginAnswers : SignupSettled(r, resp)
  \/ \E p \in Pages : Navigate(p)
  \/ HandleBack
  \/ HandleNext
  \/ OnboardingSubmit
  \/ \E r \in requests, resp \in ProfileAnswers : OnboardingSettled(r, resp)
  \/ \E s \in ChatInputs : TypeInput(s)
  \/ ChatSubmitEmpty
  \/ ChatSubmit
  \/ \E r \in requests, resp \in ChatAnswers : ChatSettled(r, resp)
  \/ ProfileEffect
  \/ \E r \in requests, resp \in ProfileAnswers : ProfileFetchSettled(r, resp)
  \/ ToggleEdit
  \/ ProfileSubmit
  \/ \E r \in requests, resp \in ProfileAnswers : ProfileSubmitSettled(r, resp)
  \/ ClearError
  \/ Tick
  \/ \E s \in ChatInputs : LegacySubmit(s)
  \/ \E a \in LegacyAnswers : LegacySettled(a)
  \/ LegacyClear
  \/ \E resolved \in BOOLEAN : LegacyClearSettled(resolved)

Spec == Init /\ [][Next]_vars

\* The session on its own: startup, the credential calls, logout, navigation.
NextSession ==
  \/ InitializeAuth
  \/ \E r \in requests, resp \in ProfileAnswers : InitializeAuthSettled(r, resp)
  \/ LoginStart
  \/ \E r \in requests, resp \in LoginAnswers : LoginSettled(r, resp)
  \/ Logout
  \/ SignupMismatch
  \/ SignupStart
  \/ \E r \in requests, resp \in LoginAnswers : SignupSettled(r, resp)
  \/ \E p \in Pages : Navigate(p)
  \/ ProfileEffect
  \/ \E r \in requests, resp \in ProfileAnswers : ProfileFetchSettled(r, resp)
  \/ ClearError

SpecSession == Init /\ [][NextSession]_vars

\* A session opened from a stored token and the authenticated calls made in
\* it: the startup profile check, the onboarding submit and the chat view.
NextAuthenticated ==
  \/ InitializeAuth
  \/ \E r \in requests, resp \in ProfileAnswers : InitializeAuthSettled(r, resp)
  \/ Logout
  \/ \E p \in Pages : Navigate(p)
  \/ HandleBack
  \/ HandleNext
  \/ OnboardingSubmit
  \/ \E r \in requests, resp \in ProfileAnswers : OnboardingSettled(r, resp)
  \/ \E s \in ChatInputs : TypeInput(s)
  \/ ChatSubmitEmpty
  \/ ChatSubmit
  \/ \E r \in requests, resp \in ChatAnswers : ChatSettled(r, resp)
  \/ ProfileEffect
  \/ \E r \in requests, resp \in ProfileAnswers : ProfileFetchSettled(r, resp)
  \/ ClearError

SpecAuthenticated == Init /\ [][NextAuthenticated]_vars

\* The session with the scheduling the platform guarantees for startup: the
\* mount effect of AuthProvider runs, and a fetch that is issued settles.
SpecStartup ==
  /\ Init
  /\ [][NextSession]_vars
  /\ WF_vars(InitializeAuth)
  /\ WF_vars(\E r \in requests, resp \in ProfileAnswers : InitializeAuthSettled(r, resp))

\* The chat view with the clock running: startup, typing, sends, replies.
NextClock ==
  \/ InitializeAuth
  \/ \E r \in requests, resp \in ProfileAnswers : InitializeAuthSettled(r, resp)
  \/ \E s \in ChatInputs : TypeInput(s)
  \/ ChatSubmitEmpty
  \/ ChatSubmit
  \/ \E r \in requests, resp \in ChatAnswers : ChatSettled(r, resp)
  \/ Tick

SpecClock == Init /\ [][NextClock]_vars

\* The operations that drive the global busy flag: login, signup through its
\* page, and the onboarding wizard, with startup and navigation around them.
NextBusy ==
  \/ InitializeAuth
  \/ \E r \in requests, resp \in ProfileAnswers : InitializeAuthSettled(r, resp)
  \/ LoginStart
  \/ \E r \in requests, resp \in LoginAnswers : LoginSettled(r, resp)
  \/ SignupStart
  \/ \E r \in requests, resp \in LoginAnswers : SignupSettled(r, resp)
  \/ \E p \in Pages : Navigate(p)
  \/ HandleBack
  \/ HandleNext
  \/ OnboardingSubmit
  \/ \E r \in requests, resp \in ProfileAnswers : OnboardingSettled(r, resp)
  \/ ClearError

SpecBusy == Init /\ [][NextBusy]_vars

\* The legacy chat page on its own.
NextLegacy ==
  \/ \E s \in ChatInputs : LegacySubmit(s)
  \/ \E a \in LegacyAnswers : LegacySettled(a)
  \/ LegacyClear
  \/ \E resolved \in BOOLEAN : LegacyClearSettled(resolved)

SpecLegacy == Init /\ [][NextLegacy]_vars

(* ------------------------------------------------------------- sanity *)

TypeOK ==
  /\ token \in Tokens \cup { NoToken }
  /\ user \in Users \cup { Null }
  /\ isInitialized \in BOOLEAN
  /\ authPc \in { "uninitialized", "checking", "done" }
  /\ isLoading \in BOOLEAN
  /\ timers \in 0 .. MaxTimers
  /\ page \in Pages
  /\ Len(messages) <= MaxTranscript
  /\ inputMessage \in ChatInputs
  /\ chatLoading \in BOOLEAN
  /\ step \in FirstStep .. LastStep
  /\ profilePage \in [ isLoading : BOOLEAN, isEditing : BOOLEAN,
                        showError : STRING ]
  /\ nextId \in 1 .. MaxRequests + 1
  /\ isInitialized <=> authPc = "done"
  /\ loadingCalls \in 0 .. 2 * MaxRequests
  /\ now \in 0 .. MaxClock
  /\ sinceLogout \in BOOLEAN
  /\ Len(chatMessages) <= MaxChildren
  /\ \A i \in 1 .. Len(chatMessages) :
       chatMessages[i] \in { "welcome", "user", "assistant", "system", "indicator" }
  /\ legacyChats \in 0 .. MaxRequests
  /\ legacyClears \in 0 .. MaxRequests

\* A chat view that is not on screen holds no state.
UnmountedChatIsFresh ==
  Screen # "/chat" => messages = << >> /\ inputMessage = "" /\ ~chatLoading

(* ================================================================ claims *)

\* How many entries of a transcript have the given sender.
CountOf(msgs, sender) ==
  Cardinality({ i \in 1 .. Len(msgs) : msgs[i].sender = sender })

\* The input is empty or made of white space only, said without trim.
Blank(s) == \A i \in 1 .. Len(s) : IsSpace(SubSeq(s, i, i))

\* The step just taken is a run of the named handler.
Took(op) == last'.op = op /\ last' # last

\* C1: submitting a chat input that is empty or only white space issues no
\* sendChatMessage request and leaves the transcript, the busy flag and the
\* input as they were.
C1_BlankInputSendsNothing ==
  [][ (last'.op = "chat.submit" /\ Blank(inputMessage))
        => UNCHANGED << messages, chatLoading, inputMessage, requests, nextId >> ]_vars

C1_Witness ==
  /\ last.op = "chat.submit" /\ last.ret = "rejected"
  /\ inputMessage = " \t"
  /\ messages # << >>

\* C2 as stated: while one chat view is on screen its transcript never gets
\* shorter, and the user entries are at least as many as the assistant
\* entries and at most one more.
C2_AtMostOneAhead ==
  [][ (Screen = "/chat" /\ Screen' = "/chat")
        => /\ Len(messages') >= Len(messages)
           /\ CountOf(messages', "user") >= CountOf(messages', "assistant")
           /\ CountOf(messages', "user") - CountOf(messages', "assistant") <= 1 ]_vars

\* C2 as amended: while one chat view is on screen its transcript never gets
\* shorter, and the user entries are at least as many as the assistant
\* entries and exceed them by at most the number of sends in flight.
C2_AheadByInFlight ==
  [][ (Screen = "/chat" /\ Screen' = "/chat")
        => /\ Len(messages') >= Len(messages)
           /\ CountOf(messages', "user") >= CountOf(messages', "assistant")
           /\ CountOf(messages', "user") - CountOf(messages', "assistant")
                <= Cardinality(InFlight') ]_vars

C2_Witness ==
  /\ Cardinality(InFlight) = 2
  /\ CountOf(messages, "user") = 2
  /\ CountOf(messages, "assistant") = 0

\* C3: when getProfile, updateProfile or sendChatMessage is answered 401, no
\* token is stored once the call has finished and the call has raised the
\* session-expired error.
C3_TokenAbsentAfter401 ==
  (/\ last.op \in { "initializeAuth.settled", "onboarding.settled", "chat.settled" }
   /\ last.resp.status = 401)
    => token = NoToken /\ last.raised = SessionExpiredMessage

C3_Witness ==
  /\ last.op = "onboarding.settled"
  /\ last.resp.status = 401
  /\ token = NoToken
  /\ \E q \in requests : q.caller = "chatPage" /\ q.bearer \in Tokens

\* C4: when a request made after initialization (sendChatMessage or
\* updateProfile) is answered 401, Session.user is null afterwards.
C4_UserClearedOn401 ==
  (/\ last.op \in { "onboarding.settled", "chat.settled" }
   /\ last.resp.status = 401)
    => user = Null

\* C5: when login gets a success answer { token, user }, on return the stored
\* token is the answer's token, Session.user is the answer's user, the
\* session is initialized, and login has returned true.
C5_LoginSuccess ==
  (last.op = "login.settled" /\ Ok(last.resp))
    => /\ token = last.resp.data.token
       /\ user = last.resp.data.user
       /\ isInitialized
       /\ last.ret = "true"

C5_Witness ==
  /\ last.op = "login.settled"
  /\ last.resp.status = 200
  /\ token = "t2" /\ user = "u2"

\* C6: when the transport login fails (a non-ok status or a network failure),
\* login returns false, the notification layer holds an error message, and
\* Session.user and the stored token are what they were before.
C6_LoginFailure ==
  [][ (Took("login.settled") /\ ~Ok(last'.resp))
        => /\ last'.ret = "false"
           /\ error' # Null
           /\ user' = user
           /\ token' = token ]_vars

C6_Witness ==
  /\ last.op = "login.settled" /\ last.ret = "false"
  /\ last.resp.status = 401
  /\ token \in Tokens /\ user \in Users
  /\ error # Null

\* C7: signup on a success answer stores the token, sets Session.user and
\* returns the payload; on a failure it shows a message, re-raises, and
\* leaves Session.user and the stored token as they were.
C7_Signup ==
  [][ Took("signup.settled")
        => IF Ok(last'.resp)
           THEN /\ token' = last'.resp.data.token
                /\ user' = last'.resp.data.user
                /\ last'.ret = "data"
           ELSE /\ error' # Null
                /\ last'.ret = "threw"
                /\ user' = user
                /\ token' = token ]_vars

C7_Witness ==
  /\ last.op = "signup.settled" /\ last.ret = "threw"
  /\ ~Ok(last.resp)
  /\ error # Null
  /\ token \in Tokens /\ user \in Users

\* C8: logout is one step that issues no request; right after it no token is
\* stored and Session.user is null, whatever the state it was called in.
C8_Logout ==
  [][ last'.op = "logout"
        => /\ token' = NoToken
           /\ user' = Null
           /\ requests' = requests
           /\ nextId' = nextId ]_vars

C8_Witness ==
  /\ last.op = "logout"
  /\ token = NoToken /\ user = Null
  /\ \E q \in requests : q.caller = "login"

\* C9: the startup check ends authenticated, with the fetched profile as
\* user, when a token is stored and the profile fetch succeeds; it ends
\* anonymous with the token discarded when the fetch fails in any way; and
\* with no token stored it ends anonymous without having issued a request.
C9_StartupOutcome ==
  /\ last.op = "initializeAuth.settled"
       => /\ isInitialized
          /\ IF Ok(last.resp)
             THEN user = last.resp.data.user /\ token \in Tokens
             ELSE user = Null /\ token = NoToken
  /\ last.op = "initializeAuth"
       => IF isInitialized
          THEN user = Null /\ token = NoToken /\ requests = { } /\ nextId = 1
          ELSE token \in Tokens /\ \E q \in requests : q.op = "getProfile"

C9_Witness ==
  /\ last.op = "initializeAuth.settled"
  /\ last.resp.status = 500
  /\ isInitialized /\ user = Null /\ token = NoToken

\* C10: protected content is on screen only when the session is initialized
\* and Session.user is set; the guard waits while the session is not
\* initialized, and with no user it redirects, so that the router never
\* rests on a protected route for an anonymous visitor.
C10_RouteGuard ==
  /\ Screen \in ProtectedPages => isInitialized /\ user # Null
  /\ ~isInitialized => ProtectedRoute(user, isInitialized, isLoading) = "checking"
  /\ (isInitialized /\ user = Null)
       => /\ ProtectedRoute(user, isInitialized, isLoading) = "redirect"
          /\ page \notin ProtectedPages

C10_Witness ==
  /\ Screen = "/chat"
  /\ user \in Users
  /\ last.op = "login.settled"

\* The numbers of the requests in a set.
Ids(reqs) == { q.id : q \in reqs }

\* C11: getProfile, updateProfile and sendChatMessage, called while no token
\* is stored, raise the no-token error without issuing a request and leave
\* the storage as it was.
C11_NoTokenRaisesBeforeNetwork ==
  [][ (/\ last'.op \in { "profile.fetch", "onboarding.submit", "chat.submit" }
       /\ last'.ret # "rejected"
       /\ token = NoToken)
        => /\ last'.raised = NoTokenMessage
           /\ nextId' = nextId
           /\ Ids(requests') \subseteq Ids(requests)
           /\ token' = token ]_vars

C11_Witness ==
  /\ last.op = "profile.fetch"
  /\ last.raised = NoTokenMessage
  /\ token = NoToken
  /\ user \in Users

\* The entries of a transcript that belong to the send with request id.
SendEntries(msgs, id) == SelectSeq(msgs, LAMBDA e : e.req = id)

\* The step just taken settled the request of a send of the chat view on
\* screen with a 200 answer whose body says success and carries a reply.
RepliedTo ==
  /\ last'.op = "chat.settled"
  /\ last'.id \in Ids(InFlight)
  /\ last'.resp.status = 200
  /\ last'.resp.data.success
  /\ last'.resp.data.response # Undefined

\* What a send that was answered has put in the transcript: its user entry
\* with the submitted input at submit, and at the answer one assistant entry
\* with the reply, these two being all the entries of the send; the
\* notification layer is left alone.
RepliedWith(reply) ==
  /\ messages' = Append(messages,
                   [ id |-> now + 1, content |-> reply, sender |-> "assistant",
                     req |-> last'.id ])
  /\ Len(SendEntries(messages', last'.id)) = 2
  /\ SendEntries(messages', last'.id)[1].sender = "user"
  /\ UNCHANGED << error, timers >>

SubmitAppendsInput ==
  (last'.op = "chat.submit" /\ last'.ret = "pending")
    => messages' = Append(messages,
                     [ id |-> now, content |-> inputMessage, sender |-> "user",
                       req |-> last'.id ])

\* C12 as stated: a non-empty send answered { success: true, response: r }
\* adds one user entry with the submitted input and one assistant entry with
\* content r, and nothing else, for every r.
C12_ReplyIsResponse ==
  [][ /\ SubmitAppendsInput
      /\ RepliedTo => RepliedWith(last'.resp.data.response) ]_vars

\* C12 as amended: the same for every non-empty r (for an empty r the
\* assistant entry takes the body's message field instead).
C12_ReplyIsNonEmptyResponse ==
  [][ /\ SubmitAppendsInput
      /\ (RepliedTo /\ last'.resp.data.response # "")
           => RepliedWith(last'.resp.data.response) ]_vars

C12_Witness ==
  /\ last.op = "chat.settled" /\ last.ret = "ok"
  /\ last.resp.data.response = "R"
  /\ Len(messages) = 2
  /\ messages[1] = [ id |-> now, content |-> " hi ", sender |-> "user", req |-> last.id ]
  /\ messages[2] = [ id |-> now + 1, content |-> "R", sender |-> "assistant",
                      req |-> last.id ]

\* The answer is one of the failures of a chat send: the fetch rejected
\* (status 0), the status is not 2xx, or the body's success flag is false.
ChatFailure(resp) == ~Ok(resp) \/ ~resp.data.success

\* C13: whatever the kind of failure of a chat send, once it is handled the
\* notification layer holds an error and, in the view that made the send,
\* the send's entries are its user entry and, last in the transcript, one
\* assistant entry with the generic error text.
C13_FailureHandledAlike ==
  (last.op = "chat.settled" /\ ChatFailure(last.resp))
    => /\ error # Null
       /\ SendEntries(messages, last.id) # << >>
            => /\ messages[Len(messages)] =
                    [ id |-> now + 1, content |-> ChatErrorContent, sender |-> "assistant",
                      req |-> last.id ]
               /\ Len(SendEntries(messages, last.id)) = 2
               /\ SendEntries(messages, last.id)[1].sender = "user"

C13_Witness ==
  /\ last.op = "chat.settled"
  /\ last.resp.status = 200 /\ ~last.resp.data.success
  /\ Len(messages) = 2
  /\ messages[1].sender = "user" /\ messages[1].req = last.id
  /\ messages[2].content = ChatErrorContent
  /\ error # Null

\* C14: showError leaves the clears scheduled by earlier calls pending and
\* adds its own, and every scheduled clear, when it fires, sets the error
\* to null whatever was shown since: with two calls inside the window the
\* second message is cleared when the first call's timer fires.
C14_ClearNeverCancelled ==
  [][ /\ (error' # Null /\ error' # error) => timers' > timers
      /\ timers' < timers => (timers' = timers - 1 /\ error' = Null) ]_vars

C14_Witness ==
  /\ error = Null
  /\ timers = 1
  /\ last = Idle

\* The step just taken removed the stored token.
TokenDeleted == token # NoToken /\ token' = NoToken

\* C15 as stated: the stored token is deleted only by logout or by the
\* receipt of a 401 answer.
C15_DeletedByLogoutOr401 ==
  [][ TokenDeleted => (last'.op = "logout" \/ last'.resp.status = 401) ]_vars

\* C15 as amended: the stored token is deleted only by logout, by the
\* receipt of a 401 answer, or by the startup profile check failing in any
\* way.
C15_DeletedByLogout401OrStartup ==
  [][ TokenDeleted
        => \/ last'.op = "logout"
           \/ last'.resp.status = 401
           \/ last'.op = "initializeAuth.settled" /\ ~Ok(last'.resp) ]_vars

C15_Witness ==
  /\ last.op = "initializeAuth.settled"
  /\ last.resp.status = 0
  /\ token = NoToken
  /\ isInitialized

\* The last step handled the failure of a transport call: the call raised,
\* or a chat send was answered with a body whose success flag is false.
FailureHandled ==
  \/ last.raised # Undefined
  \/ last.op = "chat.settled" /\ ChatFailure(last.resp)

\* C16: once the failure of a transport call made by a component is handled,
\* the notification layer holds an error or the transcript ends with an
\* error entry.
C16_EveryFailureVisible ==
  FailureHandled
    => \/ error # Null
       \/ messages # << >> /\ messages[Len(messages)].content = ChatErrorContent

\* C17: the session becomes initialized after the application starts,
\* whether the startup check succeeds, fails or is skipped, and once it is
\* initialized it stays so.
C17_EventuallyInitialized ==
  /\ <>isInitialized
  /\ [][isInitialized => isInitialized']_vars

C17_Witness ==
  /\ isInitialized
  /\ last.op = "initializeAuth.settled"
  /\ last.ret = "failed"
  /\ authPc = "done"

\* C18: a send that passes the empty-input check has the busy flag set
\* while its request is in flight, and once its request has settled, with a
\* reply or with any failure, or once it has failed for lack of a token, the
\* busy flag of its view is clear.
C18_BusyFlagPerSend ==
  /\ (last.op = "chat.submit" /\ last.ret = "pending")
       => chatLoading /\ last.id \in Ids(InFlight)
  /\ (last.op = "chat.submit" /\ last.ret = "failed") => ~chatLoading
  /\ (last.op = "chat.settled" /\ SendEntries(messages, last.id) # << >>)
       => ~chatLoading

C18_Witness ==
  /\ last.op = "chat.settled" /\ last.ret = "failed"
  /\ last.resp.status = 500
  /\ SendEntries(messages, last.id) # << >>
  /\ ~chatLoading

\* C19: the chat view's busy flag is set in every state in which a request
\* of one of its sends is outstanding.
C19_BusyWhileOutstanding ==
  InFlight # { } => chatLoading

\* C20: in the transcript of a chat view the user entries stand in the order
\* of their submits (the order in which their requests were issued), and
\* the assistant entry of every send stands after the send's user entry;
\* a send that failed for lack of a token has its two entries side by side.
C20_TranscriptOrder ==
  /\ \A i, j \in 1 .. Len(messages) :
       (/\ i < j
        /\ messages[i].sender = "user" /\ messages[j].sender = "user"
        /\ messages[i].req # 0 /\ messages[j].req # 0)
         => messages[i].req < messages[j].req
  /\ \A j \in 1 .. Len(messages) :
       messages[j].sender = "assistant"
         => \E i \in 1 .. j - 1 :
              /\ messages[i].sender = "user"
              /\ messages[i].req = messages[j].req
              /\ messages[j].req = 0 => i = j - 1

C20_Witness ==
  /\ Len(messages) = 4
  /\ messages[1].sender = "user" /\ messages[2].sender = "user"
  /\ messages[3].sender = "assistant" /\ messages[4].sender = "assistant"
  /\ messages[3].req = messages[2].req
  /\ messages[4].req = messages[1].req

\* C21: in a transcript every entry's id differs from the id of every other
\* entry, whatever the clock read when the entries were made.
C21_UniqueIds ==
  \A i, j \in 1 .. Len(messages) : i # j => messages[i].id # messages[j].id

\* The operations that set the global busy flag and are awaiting their fetch.
BusyInFlight == { q \in requests : q.caller \in { "login", "signupPage", "onboarding" } }

\* How many stopLoading calls the operations in flight still owe: one each,
\* and one more for a signup, which runs inside the signup page's wrapper.
RECURSIVE StopsOwed(_)
StopsOwed(reqs) ==
  IF reqs = { } THEN 0
  ELSE LET q == CHOOSE x \in reqs : TRUE IN
         (IF q.caller = "signupPage" THEN 2 ELSE 1) + StopsOwed(reqs \ { q })

\* C22: however logins, signups through the signup page and onboarding
\* submits interleave, each has called stopLoading once for each of its
\* startLoading calls by the time it has finished, on success and on
\* failure alike, and the global busy flag is false once none is in flight.
C22_BusyFlagReleased ==
  /\ loadingCalls = StopsOwed(BusyInFlight)
  /\ BusyInFlight = { } => ~isLoading

C22_Witness ==
  /\ BusyInFlight = { }
  /\ nextId > MaxRequests
  /\ last.op = "onboarding.settled" /\ last.ret = "failed"
  /\ last.id < MaxRequests

\* C23: when the profile page is torn down while its fetch is in flight, the
\* fetch is not aborted (it stays in flight), and its completion changes
\* nothing of the profile page's state and raises no notification.
C23_OrphanedFetchIsSilent ==
  [][ /\ (page = "/profile" /\ page' # "/profile")
         => \A q \in requests :
              q.caller = "profilePage"
                => \E o \in requests' : o.id = q.id /\ o.op = q.op /\ ~o.live
      /\ (/\ last'.op = "profile.settled"
          /\ \E q \in requests : q.id = last'.id /\ ~q.live)
         => UNCHANGED << profilePage, error, timers >> ]_vars

C23_Witness ==
  /\ last.op = "profile.settled" /\ last.ret = "dropped"
  /\ last.raised # Undefined
  /\ page # "/profile"
  /\ error = Null

\* C24: in every state of the chat view in which no send is in flight, the
\* transcript holds as many assistant entries as user entries.
C24_RepliesMatchSends ==
  InFlight = { } => CountOf(messages, "assistant") = CountOf(messages, "user")

C24_Witness ==
  /\ InFlight = { }
  /\ CountOf(messages, "user") = 2
  /\ CountOf(messages, "assistant") = 2
  /\ \E i \in 1 .. Len(messages) : messages[i].content = ChatErrorContent

\* C25: a 401 answer to an authenticated request removes the stored token
\* only when the token stored is still the one the request carried: a token
\* written by a later login or signup survives the 401 of an older request.
C25_StaleUnauthorizedKeepsToken ==
  [][ \A q \in requests :
        (/\ last'.id = q.id /\ last'.resp.status = 401
         /\ \A o \in requests' : o.id # q.id
         /\ q.bearer # token)
          => token' = token ]_vars

\* C26: once logout() has run the session stays anonymous (no user, no
\* token stored) until a new login or signup is started; a login or signup
\* that was in flight at the logout neither signs the user in nor stores a
\* token when it completes.
C26_AnonymousAfterLogout ==
  sinceLogout => user = Null /\ token = NoToken

\* C27: whenever the session is initialized and holds no user, no token is
\* stored.
C27_NoUserNoToken ==
  (isInitialized /\ user = Null) => token = NoToken

C27_Witness ==
  /\ isInitialized /\ user = Null /\ token = NoToken
  /\ sinceLogout
  /\ last.op = "login.settled" /\ last.ret = "false"

\* C28: the profile page issues its fetch once per mount: every run of the
\* fetch happens on a page that has not run it since it was mounted, and a
\* change of the notification starts no further getProfile.
C28_OneFetchPerMount ==
  [][ last'.op = "profile.fetch" /\ last' # last
        => profilePage.showError = NoRender ]_vars

\* The onboarding submit whose settling is the step being taken.
OnboardingAnswered(ret) ==
  /\ last'.op = "onboarding.settled" /\ last'.ret = ret
  /\ \E q \in requests : q.id = last'.id /\ q.caller = "onboarding" /\ q \notin requests'

C30_IndicatorWhileInFlight ==
  Indicators(chatMessages) > 0 <=> legacyChats > 0

====
